---- MODULE Spec2Model ----
(***************************************************************************)
(* State-machine model of AppComponent (src/src/app.component.ts): the     *)
(* sequential geocoding pipeline with bounded retry and cooperative        *)
(* cancellation, the settings dialog and the loading of the map library.   *)
(*                                                                         *)
(* One action is one task of the event loop with the microtasks it leaves  *)
(* behind: a UI handler, an event of a script element, a timer, or the     *)
(* provider settling promises, each followed by the continuations of the   *)
(* async functions up to their next await on the provider or on a timer.   *)
(* Every call of startSearch creates its own loop, an entry of runs; loops *)
(* are never destroyed by the code, they only reach the end of             *)
(* startSearch.                                                            *)
(***************************************************************************)
EXTENDS Integers, Sequences, FiniteSets, TLC

(***************************************************************************)
(* Bounds of the model.                                                    *)
(***************************************************************************)
\* number of startSearch calls explored on one page
MaxRuns == 2
\* largest retryCount among the persisted settings explored
MaxRetryCount == 1
\* significant decimal digits kept of a number
MaxDigits == 8
\* longest text of the address box explored exhaustively
MaxLen == 4
\* script elements, polling intervals and ymaps.ready() promises pending
\* at the same time
MaxLoads == 2

(***************************************************************************)
(* Program constants.                                                      *)
(***************************************************************************)
DefaultRetryCount == 3
\* initializeMapWithRetry gives up after more than this many polls
MaxPollAttempts == 30

\* the value null of a signal / variable
Null == "null"
\* the texts the component puts in mapError
MsgNoKey == "The API key is not set."
MsgInvalidKey == "Invalid API key. Open the settings and check the key."
MsgScriptError == "Failed to load the Yandex Maps API."
MsgPollTimeout == "Could not load the Yandex Maps API."
MsgInitError == "Map initialisation failed."

(***************************************************************************)
(* Text: a string is a sequence of one-character strings.                  *)
(***************************************************************************)
NL == "\n"
SP == " "
TAB == "\t"
CR == "\r"
NBSP == " "

\* WhiteSpace and LineTerminator of the language, as far as the character
\* set of this module goes (the spaces beyond U+00FF are not in it, but for
\* the byte order mark)
\* (tab, line feed, line tabulation, form feed, carriage return, space,
\* no-break space, U+FEFF)
WhiteSpace == {TAB, NL, "", "\f", CR, SP, NBSP, "﻿"}

IsSpace(c) == c \in WhiteSpace

\* String.prototype.trim
RECURSIVE TrimLeft(_)
TrimLeft(s) ==
    IF s = <<>> THEN <<>>
    ELSE IF IsSpace(Head(s)) THEN TrimLeft(Tail(s)) ELSE s

RECURSIVE TrimRight(_)
TrimRight(s) ==
    IF s = <<>> THEN <<>>
    ELSE IF IsSpace(s[Len(s)]) THEN TrimRight(SubSeq(s, 1, Len(s) - 1)) ELSE s

Trim(s) == TrimRight(TrimLeft(s))

\* String.prototype.split(sep) for a one-character separator: the pieces
\* between the separators, empty pieces included ("" splits to [""])
RECURSIVE SplitFrom(_, _, _)
SplitFrom(s, sep, cur) ==
    IF s = <<>> THEN <<cur>>
    ELSE IF Head(s) = sep THEN <<cur>> \o SplitFrom(Tail(s), sep, <<>>)
    ELSE SplitFrom(Tail(s), sep, Append(cur, Head(s)))

Split(s, sep) == SplitFrom(s, sep, <<>>)

\* Array.prototype.filter(addr => addr.length > 0)
RECURSIVE NonEmpty(_)
NonEmpty(lines) ==
    IF lines = <<>> THEN <<>>
    ELSE IF Len(Head(lines)) > 0 THEN <<Head(lines)>> \o NonEmpty(Tail(lines))
    ELSE NonEmpty(Tail(lines))

\* a slip: the lines are not trimmed
ParseAddressesRaw(text) == NonEmpty(Split(text, NL))

\* startSearch, lines 311-314
ParseAddresses(text) ==
    NonEmpty([k \in 1..Len(Split(text, NL)) |-> Trim(Split(text, NL)[k])])

\* the texts the user may put in the address box
Inputs ==
    { <<>>,
      <<"a">>,
      <<"a", CR, NL, NL, TAB, "b">> }

Range(f) == { f[k] : k \in DOMAIN f }

Addresses == UNION { Range(ParseAddresses(t)) : t \in Inputs }

Min(a, b) == IF a <= b THEN a ELSE b

RECURSIVE Repeat(_, _)
Repeat(c, n) == IF n <= 0 THEN <<>> ELSE <<c>> \o Repeat(c, n - 1)

StartsWith(s, prefix) ==
    Len(s) >= Len(prefix) /\ SubSeq(s, 1, Len(prefix)) = prefix

\* the rest of s after its first n characters
Drop(s, n) == SubSeq(s, n + 1, Len(s))

(***************************************************************************)
(* Numbers.  A finite number is the decimal m * 10^e, held with m not      *)
(* divisible by 10 (zero as 0 * 10^0), of which at most MaxDigits          *)
(* significant digits are kept.  Beside them stand NaN, Infinity and       *)
(* -Infinity, and null: what JSON.parse gives back for a number            *)
(* JSON.stringify could not write, which arithmetic reads as 0.            *)
(***************************************************************************)
RECURSIVE Normal(_, _)
Normal(m, e) ==
    IF m = 0 THEN [k |-> "num", m |-> 0, e |-> 0]
    ELSE IF m % 10 = 0 THEN Normal(m \div 10, e + 1)
    ELSE [k |-> "num", m |-> m, e |-> e]

\* the number of the program that is the integer n of the model
Num(n) == Normal(n, 0)

NaN == [k |-> "NaN", m |-> 0, e |-> 0]
Infinity == [k |-> "Infinity", m |-> 1, e |-> 0]
NegInfinity == [k |-> "Infinity", m |-> -1, e |-> 0]
JsNull == [k |-> "null", m |-> 0, e |-> 0]

\* undefined, where a number is expected
Undefined == [k |-> "undefined", m |-> 0, e |-> 0]

\* the largest finite number, to the digits kept
MaxDouble == [k |-> "num", m |-> 17976931, e |-> 301]

Abs(n) == IF n < 0 THEN -n ELSE n

RECURSIVE Pow10(_)
Pow10(n) == IF n <= 0 THEN 1 ELSE 10 * Pow10(n - 1)

RECURSIVE NumDigits(_)
NumDigits(n) == IF n < 10 THEN 1 ELSE 1 + NumDigits(n \div 10)

\* the place of the decimal point: |v| = 0.d1d2... * 10^Scale(v)
Scale(v) == NumDigits(Abs(v.m)) + v.e

\* |a| < |b| for numbers that are not zero, NaN or null
MagLess(a, b) ==
    IF a.k = "Infinity" THEN FALSE
    ELSE IF b.k = "Infinity" THEN TRUE
    ELSE IF Scale(a) # Scale(b) THEN Scale(a) < Scale(b)
    ELSE LET da == NumDigits(Abs(a.m))
             db == NumDigits(Abs(b.m))
         IN  Abs(a.m) * Pow10(db - da) < Abs(b.m) * Pow10(da - db)

Sign(v) == IF v.m > 0 THEN 1 ELSE IF v.m < 0 THEN -1 ELSE 0

\* ToNumber of a number or null
ToNumber(v) ==
    IF v = JsNull THEN Num(0) ELSE IF v = Undefined THEN NaN ELSE v

\* isNaN(v)
IsNaN(v) == ToNumber(v) = NaN

\* a < b for numbers that are not NaN
Below(a, b) ==
    IF Sign(a) # Sign(b) THEN Sign(a) < Sign(b)
    ELSE IF Sign(a) = 0 THEN FALSE
    ELSE IF Sign(a) > 0 THEN MagLess(a, b)
    ELSE MagLess(b, a)

\* a < b and a <= b of the language
LessThan(a, b) ==
    ~IsNaN(a) /\ ~IsNaN(b) /\ Below(ToNumber(a), ToNumber(b))

LessEq(a, b) ==
    /\ ~IsNaN(a)
    /\ ~IsNaN(b)
    /\ ToNumber(a) = ToNumber(b) \/ Below(ToNumber(a), ToNumber(b))

Digits == <<"0", "1", "2", "3", "4", "5", "6", "7", "8", "9">>

IsDigit(c) == \E k \in DOMAIN Digits : Digits[k] = c

DigitValue(c) == (CHOOSE k \in DOMAIN Digits : Digits[k] = c) - 1

\* the longest prefix of s made of digits
RECURSIVE DigitPrefix(_)
DigitPrefix(s) ==
    IF s = <<>> THEN <<>>
    ELSE IF IsDigit(Head(s)) THEN <<Head(s)>> \o DigitPrefix(Tail(s))
    ELSE <<>>

RECURSIVE DigitsValue(_)
DigitsValue(ds) ==
    IF ds = <<>> THEN 0
    ELSE 10 * DigitsValue(SubSeq(ds, 1, Len(ds) - 1)) + DigitValue(ds[Len(ds)])

RECURSIVE StripZeros(_)
StripZeros(ds) ==
    IF ds # <<>> /\ Head(ds) = "0" THEN StripZeros(Tail(ds)) ELSE ds

\* Number.prototype.toString for the naturals
RECURSIVE NumToString(_)
NumToString(n) ==
    IF n < 10 THEN <<Digits[n + 1]>>
    ELSE Append(NumToString(n \div 10), Digits[(n % 10) + 1])

InfinityText == <<"I", "n", "f", "i", "n", "i", "t", "y">>

(***************************************************************************)
(* Next to zero the numbers of the program lie 2^-1074 apart, farther     *)
(* apart than the decimals of MaxDigits + 1 digits below                  *)
(* 10^(MaxDigits - 323): a decimal there stands for the nearest multiple  *)
(* of 2^-1074, and that number is written with the fewest digits that     *)
(* tell it from its neighbours.  From there up every decimal of MaxDigits *)
(* digits is the shortest name of a number of its own.                    *)
(* The arithmetic is done on naturals in units of 10^-353, written as     *)
(* sequences of Wide digits, the most significant first.  No decimal of   *)
(* MaxDigits + 1 digits comes nearer than 5 * 10^-11 steps to the middle  *)
(* between two neighbours, thirty digits of 2^-1074 tell on which side    *)
(* of it a decimal lies.                                                  *)
(***************************************************************************)
\* 2^-1074 = 4.94065645841246544176568792868...e-324
TinyStep ==
    <<4, 9, 4, 0, 6, 5, 6, 4, 5, 8, 4, 1, 2, 4, 6,
      5, 4, 4, 1, 7, 6, 5, 6, 8, 7, 9, 2, 8, 6, 8>>

Wide == Len(TinyStep) + MaxDigits + 2

\* the natural with the digits ds followed by this many zeros
Widen(ds, zeros) ==
    [i \in 1..Wide |->
        LET k == i + Len(ds) + zeros - Wide
        IN  IF 1 <= k /\ k <= Len(ds) THEN ds[k] ELSE 0] \o <<>>

\* a + sign * b, for b <= a when sign = -1: digit i takes a carry when a
\* digit after it overflows and the digits between pass the carry on
WideSum(a, b, sign) ==
    LET t(i) == a[i] + sign * b[i]
        Carries(i) ==
            \E j \in (i + 1)..Wide :
                /\ t(j) < 0 \/ t(j) > 9
                /\ \A k \in (i + 1)..(j - 1) : t(k) = (IF sign = 1 THEN 9 ELSE 0)
    IN  [i \in 1..Wide |->
            (t(i) + (IF Carries(i) THEN sign ELSE 0)) % 10] \o <<>>

WideLess(a, b) ==
    \E i \in 1..Wide : a[i] < b[i] /\ \A j \in 1..(i - 1) : a[j] = b[j]

\* c steps of 2^-1074 times 10^p
RECURSIVE Steps(_, _)
Steps(c, p) ==
    IF c = 0 THEN Widen(<<>>, 0)
    ELSE WideSum(Steps(c - 1, p), Widen(TinyStep, p), 1)

\* a modulo the step, by long division: for each digit of the quotient,
\* from the one worth 10^p down, the steps that go into what is left
RECURSIVE Remainder(_, _)
Remainder(a, p) ==
    IF p < 0 THEN a
    ELSE LET c == CHOOSE c \in 0..9 :
                    /\ ~WideLess(a, Steps(c, p))
                    /\ WideLess(a, Steps(c + 1, p))
         IN  Remainder(WideSum(a, Steps(c, p), -1), p - 1)

\* the decimal with the fewest significant digits, k or more, that is
\* less than half a step from the multiple x of the step, and of those
\* the one nearest to x
RECURSIVE Shortest(_, _)
Shortest(x, k) ==
    LET first == CHOOSE i \in 1..Wide :
                    x[i] # 0 /\ \A j \in 1..(i - 1) : x[j] = 0
        last == Min(first + k - 1, Wide)
        below == [i \in 1..Wide |-> IF i <= last THEN x[i] ELSE 0]
        unit == [i \in 1..Wide |-> IF i = last THEN 1 ELSE 0]
        above == WideSum(below, unit, 1)
        twice == WideSum(x, x, 1)
        step == Widen(TinyStep, 0)
        belowNear ==
            WideLess(twice, WideSum(WideSum(below, below, 1), step, 1))
        aboveNear ==
            WideLess(WideSum(above, above, 1), WideSum(twice, step, 1))
        digits == IF belowNear /\ (~aboveNear
                                   \/ WideLess(twice, WideSum(below, above, 1)))
                  THEN below ELSE above
    IN  IF ~belowNear /\ ~aboveNear THEN Shortest(x, k + 1)
        ELSE Normal(DigitsValue([i \in 1..(k + 1) |->
                                    Digits[digits[last - k - 1 + i] + 1]]),
                    Wide - last - Len(TinyStep) - 323)

\* the number of the program for the decimal m * 10^e below
\* 10^(MaxDigits - 323), m > 0: the multiple of the step nearest to it
Tiny(m, e) ==
    LET zeros == e + Len(TinyStep) + 323
        ds == NumToString(m)
        a == Widen([i \in DOMAIN ds |-> DigitValue(ds[i])], zeros)
        r == Remainder(a, MaxDigits + 1)
        below == WideSum(a, r, -1)
        x == IF WideLess(WideSum(r, r, 1), Widen(TinyStep, 0)) THEN below
             ELSE WideSum(below, Widen(TinyStep, 0), 1)
    IN  IF zeros < 0 \/ x = Widen(<<>>, 0) THEN Num(0)
        ELSE Shortest(x, 1)

\* the value of a sign, the digits ds and the power of ten e: the first
\* MaxDigits significant digits, Infinity beyond the largest finite
\* number; next to zero one digit more, and the number nearest to that
Decimal(negative, ds, e) ==
    LET sig == StripZeros(ds)
        kept == SubSeq(sig, 1, Min(Len(sig), MaxDigits))
        m == DigitsValue(kept)
        v == Normal(IF negative THEN -m ELSE m, e + Len(sig) - Len(kept))
        more == SubSeq(sig, 1, Min(Len(sig), MaxDigits + 1))
        tiny == Tiny(DigitsValue(more), e + Len(sig) - Len(more))
    IN  IF m = 0 THEN Num(0)
        ELSE IF MagLess(MaxDouble, v)
        THEN IF negative THEN NegInfinity ELSE Infinity
        ELSE IF Scale(v) <= MaxDigits - 323
        THEN IF negative THEN Normal(-tiny.m, tiny.e) ELSE tiny
        ELSE v

\* the text after an optional sign
Unsigned(t) == IF t # <<>> /\ Head(t) \in {"+", "-"} THEN Tail(t) ELSE t

\* parseInt(str, 10): leading white space, a sign, the longest prefix of
\* digits; NaN when there is no digit
ParseInt(str) ==
    LET t == TrimLeft(str)
        ds == DigitPrefix(Unsigned(t))
    IN  IF ds = <<>> THEN NaN
        ELSE Decimal(t # <<>> /\ Head(t) = "-", ds, 0)

\* the value of the exponent part at the head of s: e or E, a sign, digits;
\* zero when s does not start with one
ExponentValue(s) ==
    LET digits == DigitPrefix(Unsigned(Drop(s, 1)))
        sig == StripZeros(digits)
        value == IF Len(sig) > 3 THEN 1000 ELSE DigitsValue(sig)
    IN  IF s = <<>> \/ Head(s) \notin {"e", "E"} \/ digits = <<>> THEN 0
        ELSE IF s[2] = "-" THEN -value ELSE value

\* parseFloat(str): leading white space, then the longest prefix that is a
\* decimal literal: a sign, Infinity or digits with an optional fraction
\* and an optional exponent; NaN when there is none
ParseFloat(str) ==
    LET t == TrimLeft(str)
        negative == t # <<>> /\ Head(t) = "-"
        body == Unsigned(t)
        int == DigitPrefix(body)
        afterInt == Drop(body, Len(int))
        dotted == afterInt # <<>> /\ Head(afterInt) = "."
        frac == IF dotted THEN DigitPrefix(Tail(afterInt)) ELSE <<>>
        point == dotted /\ (int # <<>> \/ frac # <<>>)
        afterFrac == IF point THEN Drop(afterInt, 1 + Len(frac)) ELSE afterInt
        exp == ExponentValue(afterFrac)
    IN  IF StartsWith(body, InfinityText)
        THEN IF negative THEN NegInfinity ELSE Infinity
        ELSE IF int = <<>> /\ ~point THEN NaN
        ELSE Decimal(negative, int \o (IF point THEN frac ELSE <<>>),
                     exp - (IF point THEN Len(frac) ELSE 0))

\* String(v) of a number
NumberToString(v) ==
    LET ds == NumToString(Abs(v.m))
        k == Len(ds)
        n == k + v.e
        sign == IF v.m < 0 THEN <<"-">> ELSE <<>>
    IN  IF v.k = "NaN" THEN <<"N", "a", "N">>
        ELSE IF v.k = "Infinity" THEN sign \o InfinityText
        ELSE IF v.m = 0 THEN <<"0">>
        ELSE IF k <= n /\ n <= 21 THEN sign \o ds \o Repeat("0", n - k)
        ELSE IF 0 < n /\ n <= 21
        THEN sign \o SubSeq(ds, 1, n) \o <<".">> \o SubSeq(ds, n + 1, k)
        ELSE IF -6 < n /\ n <= 0
        THEN sign \o <<"0", ".">> \o Repeat("0", -n) \o ds
        ELSE sign \o <<Head(ds)>>
                \o (IF k > 1 THEN <<".">> \o Tail(ds) ELSE <<>>)
                \o <<"e", IF n - 1 < 0 THEN "-" ELSE "+">>
                \o NumToString(Abs(n - 1))

\* JSON.stringify of a property holding a number, read back by JSON.parse:
\* null for what is not a finite number; a property that is undefined is
\* left out
JsonNumber(v) ==
    IF v.k = "num" THEN ParseFloat(NumberToString(v))
    ELSE IF v = Undefined THEN Undefined
    ELSE JsNull

(***************************************************************************)
(* The geocoding provider.  A lookup ends with a first match, with zero    *)
(* matches, or with an error object {status, message}, the message a text. *)
(***************************************************************************)
NoStatus == 0

\* the texts geocodeWithRetry looks for in the message of an error
InvalidKeyText == <<"I", "n", "v", "a", "l", "i", "d", SP, "k", "e", "y">>

ApiKeyText == <<"A", "P", "I", SP, "k", "e", "y">>

TransientError ==
    [status |-> 500,
     message |-> <<"S", "e", "r", "v", "e", "r", SP,
                 "e", "r", "r", "o", "r">>]

Errors ==
    { TransientError,
      [status |-> 401,
       message |-> <<"U", "n", "a", "u", "t", "h", "o",
                   "r", "i", "z", "e", "d">>],
      [status |-> 403,
       message |-> <<"F", "o", "r", "b", "i", "d", "d", "e", "n">>],
      [status |-> NoStatus, message |-> InvalidKeyText],
      [status |-> NoStatus, message |-> <<"B", "a", "d", SP>> \o ApiKeyText] }

Match == [kind |-> "match"]
Empty == [kind |-> "empty"]
Failure(e) == [kind |-> "error", error |-> e]

Responses == {Match, Empty} \cup { Failure(e) : e \in Errors }

\* the provider's own view of its answers: the errors by which it rejects
\* the credential, and the others
AuthErrors == Errors \ {TransientError}

AnswerClass(resp) ==
    IF resp.kind # "error" THEN resp.kind
    ELSE IF resp.error \in AuthErrors THEN "auth" ELSE "transient"

\* String.prototype.includes: the characters of sub stand in msg, one
\* after the other, from some place on
Includes(msg, sub) ==
    \E k \in 0..(Len(msg) - Len(sub)) : SubSeq(msg, k + 1, k + Len(sub)) = sub

\* a slip: status 403 is not taken for a credential error
IsAuthErrorNo403(error) ==
    \/ error.status = 401
    \/ Includes(error.message, InvalidKeyText)
    \/ Includes(error.message, ApiKeyText)

\* geocodeWithRetry, lines 279-280
IsAuthError(error) ==
    \/ error.status = 401
    \/ error.status = 403
    \/ Includes(error.message, InvalidKeyText)
    \/ Includes(error.message, ApiKeyText)

\* The provider stubs: the same answer to every lookup of an address.
\* "any" is the real provider, free to answer each lookup as it likes.
StubKinds == {"match", "global", "none", "transient", "auth"}

StubAnswer(kind, lookup) ==
    CASE kind = "match" -> Match
      [] kind = "global" -> IF lookup = "biased" THEN Empty ELSE Match
      [] kind = "none" -> Empty
      [] kind = "transient" -> Failure(TransientError)
      [] kind = "auth" ->
            Failure(CHOOSE e \in Errors : e.status = 401)

(***************************************************************************)
(* Settings.                                                               *)
(***************************************************************************)
NoKey == <<>>
SomeKey == <<"k">>

\* undefined, where the key text or the list of delays is expected
UndefinedKey == <<"undefined">>

UndefinedDelays == <<Undefined>>

\* !apiKey
NoApiKey(key) == key \in {NoKey, UndefinedKey}

\* the initial value of the signal settings, lines 45-49
DefaultSettings ==
    [apiKey |-> NoKey, retryCount |-> Num(DefaultRetryCount),
     retryDelays |-> <<Num(1), Num(2), Num(4)>>]

\* the initial value of the signal tempRetryDelays, line 54
DefaultRetryDelaysText == <<"1", ",", SP, "2", ",", SP, "4">>

\* a text in localStorage that JSON.parse rejects
NotJson == [invalid |-> TRUE]

\* the stored text {}, read by JSON.parse: an object without the properties
\* of the settings
NotSettings ==
    [apiKey |-> UndefinedKey, retryCount |-> Undefined,
     retryDelays |-> UndefinedDelays]

\* what localStorage may hold at startup: nothing, a text that is not
\* JSON, JSON that is not settings, or what an earlier saveSettings wrote
\* (a non-empty key, a non-empty list of positive delays)
StoredSettings ==
    {<<>>, <<NotJson>>, <<NotSettings>>} \cup
    { <<[apiKey |-> SomeKey, retryCount |-> Num(n),
         retryDelays |-> <<Num(1), Num(2)>>]>> : n \in 0..MaxRetryCount }

\* stored settings with a key and without retries
PlainSettings ==
    { <<[apiKey |-> SomeKey, retryCount |-> Num(0),
         retryDelays |-> <<Num(1), Num(2)>>]>> }

\* the text Array.prototype.join gives an element: nothing for null and
\* undefined
ItemToString(v) ==
    IF v \in {JsNull, Undefined} THEN <<>> ELSE NumberToString(v)

\* Array.prototype.join(', ')
RECURSIVE Join(_)
Join(nums) ==
    IF nums = <<>> THEN <<>>
    ELSE IF Len(nums) = 1 THEN ItemToString(nums[1])
    ELSE ItemToString(Head(nums)) \o <<",", SP>> \o Join(Tail(nums))

\* JSON.stringify of the settings, read back by JSON.parse
Stringify(st) ==
    [apiKey |-> st.apiKey,
     retryCount |-> JsonNumber(st.retryCount),
     retryDelays |->
        [k \in DOMAIN st.retryDelays |-> JsonNumber(st.retryDelays[k])]]

\* Array.prototype.filter(n => !isNaN(n) && n > 0), line 111
Positive(nums) ==
    LET Test(n) == ~IsNaN(n) /\ LessThan(Num(0), n)
    IN  SelectSeq(nums, Test)

\* saveSettings, lines 108-111
ParseDelays(text) ==
    LET parts == Split(text, ",")
    IN  Positive([k \in 1..Len(parts) |-> ParseFloat(Trim(parts[k]))])

(***************************************************************************)
(* State.                                                                  *)
(***************************************************************************)
VARIABLES
    addressesInput,         \* signal: the text of the address box
    isSearching,            \* signal
    foundAddressesCount,    \* signal
    totalAddressesCount,    \* signal
    notFoundAddresses,      \* signal: sequence of address texts
    mapError,               \* signal: Null or a message
    mapInitialized,         \* signal
    isSettingsOpen,         \* signal
    settings,               \* signal: AppSettings
    tempApiKey,             \* signal: settings form
    tempRetryCount,         \* signal: settings form
    tempRetryDelays,        \* signal: settings form
    geoObjectsCollection,   \* the placemarks on the map, in order of addition
    searchCancelled,        \* private field
    yandexMapsScriptLoaded, \* private field
    localStorage,           \* <<>> or <<what the settings key holds>>
    viewInit,               \* ngAfterViewInit has run
    ymaps,                  \* the global ymaps: "undefined", or defined by
                            \* the "page" or by a "script" of the component
    library,                \* what the script of the map library does when
                            \* it runs: TRUE when it defines ymaps
    scripts,                \* script elements appended and not yet loaded
    intervals,              \* initializeMapWithRetry: attempts of every
                            \* interval not yet cleared, in ascending order
    readyCalls,             \* promises of ymaps.ready() not yet settled
    runs,                   \* one entry per call of startSearch: its loop
    hist,                   \* per loop: what it has done (observation only)
    stub                    \* the provider: per address "any" or a stub kind

vars ==
    <<addressesInput, isSearching, foundAddressesCount, totalAddressesCount,
      notFoundAddresses, mapError, mapInitialized, isSettingsOpen, settings,
      tempApiKey, tempRetryCount, tempRetryDelays, geoObjectsCollection,
      searchCancelled, yandexMapsScriptLoaded, localStorage, viewInit, ymaps,
      library, scripts, intervals, readyCalls, runs, hist, stub>>

\* the fields the search pipeline reads and writes, as one record
Session ==
    [isSearching |-> isSearching,
     foundAddressesCount |-> foundAddressesCount,
     totalAddressesCount |-> totalAddressesCount,
     notFoundAddresses |-> notFoundAddresses,
     mapError |-> mapError,
     geoObjectsCollection |-> geoObjectsCollection,
     searchCancelled |-> searchCancelled,
     settings |-> settings,
     runs |-> runs,
     hist |-> hist]

Commit(s) ==
    \E t \in {s} :
        /\ isSearching' = t.isSearching
        /\ foundAddressesCount' = t.foundAddressesCount
        /\ totalAddressesCount' = t.totalAddressesCount
        /\ notFoundAddresses' = t.notFoundAddresses
        /\ mapError' = t.mapError
        /\ geoObjectsCollection' = t.geoObjectsCollection
        /\ searchCancelled' = t.searchCancelled
        /\ runs' = t.runs
        /\ hist' = t.hist

formVars == <<isSettingsOpen, tempApiKey, tempRetryCount, tempRetryDelays>>

loadVars == <<viewInit, ymaps, library, scripts, intervals, readyCalls>>

otherVars ==
    <<addressesInput, mapInitialized, settings, yandexMapsScriptLoaded,
      localStorage, formVars, loadVars, stub>>

sessionVars ==
    <<isSearching, foundAddressesCount, totalAddressesCount,
      notFoundAddresses, geoObjectsCollection, searchCancelled, runs, hist>>

(***************************************************************************)
(* The loops of startSearch.  runs[r] holds the local variables of the     *)
(* r-th call and the await it is suspended at:                             *)
(*   "biased"  line 263, "global" line 270, "backoff" line 289,            *)
(*   "pause"   line 362, "done" after line 372 (or the return of line 320).*)
(* Inside a task it may also stand at the await of line 331 with the       *)
(* promise of geocodeWithRetry settled and the rest of startSearch queued: *)
(*   "Found", "NotFound" (returned), "Failed", "Auth", "Cancelled" (threw).*)
(* hist[r] records what the loop has done; no action reads it.             *)
(***************************************************************************)
NewRun(addresses) ==
    [addresses |-> addresses, i |-> 0, pc |-> "start", attempt |-> 0,
     retryCount |-> Num(0), retryDelays |-> <<>>, lastError |-> <<>>]

NewHist(text, overlapped) ==
    [input |-> text,
     started |-> 0,
     policy |-> [retryCount |-> Num(0), retryDelays |-> <<>>],
     outcome |-> "none",
     recorded |-> 0,
     calls |-> 0,
     answers |-> <<>>,
     allTransient |-> TRUE,
     tries |-> 0,
     sleeps |-> <<>>,
     cancelAt |-> <<>>,
     overlapped |-> overlapped,
     exit |-> "none",
     final |-> <<>>]

Alive(run) == run.pc # "done"

\* what the user sees of the session
Snapshot(s) ==
    [total |-> s.totalAddressesCount,
     found |-> s.foundAddressesCount,
     notFound |-> s.notFoundAddresses,
     placemarks |-> s.geoObjectsCollection,
     cancelled |-> s.searchCancelled,
     isSearching |-> s.isSearching]

\* observation: every loop alive when stopSearch is called is cancelled
\* there, by the user or by the credential error of a loop
MarkCancelled(s, by) ==
    [s EXCEPT !.hist =
        [r \in DOMAIN s.hist |->
            IF Alive(s.runs[r]) /\ s.hist[r].cancelAt = <<>>
            THEN [s.hist[r] EXCEPT !.cancelAt =
                    <<[by |-> by,
                       started |-> s.hist[r].started,
                       tries |-> s.hist[r].tries]>>]
            ELSE s.hist[r]]]

\* stopSearch, lines 245-248
StopSearch(s, by) ==
    [MarkCancelled(s, by) EXCEPT
        !.searchCancelled = TRUE, !.isSearching = FALSE]

\* startSearch, lines 365-372: the end of the loop
ExitLoop(s, r, why) ==
    LET t == [s EXCEPT !.isSearching = FALSE, !.runs[r].pc = "done"]
    IN  [t EXCEPT !.hist[r].exit = why, !.hist[r].final = <<Snapshot(t)>>]

\* geocodeWithRetry returns or throws: its local variables are gone
Leave(s, r) ==
    [s EXCEPT !.runs[r].attempt = 0,
              !.runs[r].retryCount = Num(0),
              !.runs[r].retryDelays = <<>>,
              !.runs[r].lastError = <<>>]

\* the promise of geocodeWithRetry settles, lines 274, 258, 282 and 296:
\* the rest of startSearch is queued behind the microtasks already waiting
Settle(s, r, how) == [Leave(s, r) EXCEPT !.runs[r].pc = how]

\* observation: the loop leaves its current job behind
ClearJob(s, r) ==
    [s EXCEPT !.hist[r].outcome = "none",
              !.hist[r].calls = 0,
              !.hist[r].answers = <<>>,
              !.hist[r].allTransient = TRUE,
              !.hist[r].tries = 0,
              !.hist[r].sleeps = <<>>]

\* startSearch, line 362
Pause(s, r) == [s EXCEPT !.runs[r].pc = "pause"]

\* observation: the loop has recorded its current job
Outcome(s, r, what) ==
    [s EXCEPT !.hist[r].outcome = what, !.hist[r].recorded = @ + 1]

\* startSearch, lines 333-337 and addPlacemark
FoundBranch(s, r) ==
    LET run == s.runs[r]
        address == run.addresses[run.i + 1]
        placemark == [index |-> run.i + 1, originalAddress |-> address]
    IN  Pause(Outcome([s EXCEPT
                !.geoObjectsCollection = Append(@, placemark),
                !.foundAddressesCount = @ + 1], r, "Found"), r)

\* startSearch, lines 338-341
NotFoundBranch(s, r) ==
    LET run == s.runs[r]
        address == run.addresses[run.i + 1]
    IN  Pause(Outcome([s EXCEPT
                !.notFoundAddresses = Append(@, address)], r, "NotFound"), r)

\* a slip: the catch block goes on to the pause whatever mapError holds
CatchBlockNoStop(s, r, what) ==
    LET run == s.runs[r]
        address == run.addresses[run.i + 1]
    IN  Pause(Outcome([s EXCEPT
                !.notFoundAddresses = Append(@, address)], r, what), r)

\* a slip: a job that ended cancelled is not listed as not found
CatchBlockDropCancelled(s, r, what) ==
    LET run == s.runs[r]
        address == run.addresses[run.i + 1]
        t == Outcome([s EXCEPT
                !.notFoundAddresses =
                    IF what = "Cancelled" THEN @ ELSE Append(@, address)],
                r, what)
    IN  IF t.mapError # Null
        THEN ExitLoop(StopSearch(t, "loop"), r, "mapError")
        ELSE Pause(t, r)

\* startSearch, lines 342-359: the catch block
CatchBlock(s, r, what) ==
    LET run == s.runs[r]
        address == run.addresses[run.i + 1]
        t == Outcome([s EXCEPT
                !.notFoundAddresses = Append(@, address)], r, what)
    IN  IF t.mapError # Null
        THEN ExitLoop(StopSearch(t, "loop"), r, "mapError")
        ELSE Pause(t, r)

\* startSearch, lines 331-362: the rest of the pass through the job loop,
\* once the promise of geocodeWithRetry has settled
Resume(s, r) ==
    LET how == s.runs[r].pc
    IN  CASE how = "Found" -> FoundBranch(s, r)
          [] how = "NotFound" -> NotFoundBranch(s, r)
          [] how \in {"Failed", "Auth", "Cancelled"} -> CatchBlock(s, r, how)
          [] OTHER -> s

\* a slip: the loop runs while attempt < retryCount
BeginAttemptStrict(s, r) ==
    LET run == s.runs[r]
    IN  IF ~LessThan(Num(run.attempt), run.retryCount)
        THEN Settle(s, r, "Failed")
        ELSE IF s.searchCancelled
        THEN Settle(s, r, "Cancelled")
        ELSE [s EXCEPT !.runs[r].pc = "biased",
                       !.hist[r].answers = <<>>,
                       !.hist[r].tries = @ + 1,
                       !.hist[r].calls = @ + 1]

\* geocodeWithRetry, lines 255-265 and 294-296: the head of the attempt
\* loop, up to the biased lookup
BeginAttempt(s, r) ==
    LET run == s.runs[r]
    IN  IF ~LessEq(Num(run.attempt), run.retryCount)
        THEN Settle(s, r, "Failed")
        ELSE IF s.searchCancelled
        THEN Settle(s, r, "Cancelled")
        ELSE [s EXCEPT !.runs[r].pc = "biased",
                       !.hist[r].answers = <<>>,
                       !.hist[r].tries = @ + 1,
                       !.hist[r].calls = @ + 1]

\* geocodeWithRetry, lines 251-253
GeocodeWithRetry(s, r) ==
    BeginAttempt([s EXCEPT
        !.runs[r].retryCount = s.settings.retryCount,
        !.runs[r].retryDelays = s.settings.retryDelays,
        !.runs[r].lastError = <<>>,
        !.runs[r].attempt = 0,
        !.hist[r].started = @ + 1,
        !.hist[r].policy = [retryCount |-> s.settings.retryCount,
                            retryDelays |-> s.settings.retryDelays]], r)

\* a slip: the head of the job loop does not look at searchCancelled
LoopHeadNoCancel(s, r) ==
    LET run == s.runs[r]
    IN  IF ~(run.i < Len(run.addresses))
        THEN ExitLoop(s, r, "completed")
        ELSE Resume(GeocodeWithRetry(s, r), r)

\* startSearch, lines 323-331: the head of the job loop
LoopHead(s, r) ==
    LET run == s.runs[r]
    IN  IF ~(run.i < Len(run.addresses))
        THEN ExitLoop(s, r, "completed")
        ELSE IF s.searchCancelled
        THEN ExitLoop(s, r, "cancelled")
        ELSE Resume(GeocodeWithRetry(s, r), r)

\* a slip: the delay is taken one place further down the list
BackoffDelayNext(run) ==
    run.retryDelays[Min(run.attempt + 1, Len(run.retryDelays) - 1) + 1]

\* geocodeWithRetry, line 287
BackoffDelay(run) ==
    run.retryDelays[Min(run.attempt, Len(run.retryDelays) - 1) + 1]

\* geocodeWithRetry, lines 275-291: the catch block of one attempt
AttemptFailed(s, r, error) ==
    LET t == [s EXCEPT !.runs[r].lastError = <<error>>]
        run == t.runs[r]
    IN  IF IsAuthError(error)
        THEN Settle([t EXCEPT !.mapError = MsgInvalidKey], r, "Auth")
        ELSE IF LessThan(Num(run.attempt), run.retryCount)
        THEN [t EXCEPT !.runs[r].pc = "backoff",
                       !.hist[r].sleeps = Append(@, BackoffDelay(run))]
        ELSE BeginAttempt([t EXCEPT !.runs[r].attempt = @ + 1], r)

\* observation: the answers of the current attempt, and whether every
\* answer to the current job was the transient error
Answered(s, r, resp) ==
    [s EXCEPT !.hist[r].answers = Append(@, AnswerClass(resp)),
              !.hist[r].allTransient = @ /\ resp = Failure(TransientError)]

\* geocodeWithRetry, lines 263-274: the biased lookup has answered
AfterBiased(s, r, resp) ==
    LET t == Answered(s, r, resp)
    IN  CASE resp.kind = "match" -> Settle(t, r, "Found")
          [] resp.kind = "empty" ->
                [t EXCEPT !.runs[r].pc = "global",
                          !.hist[r].calls = @ + 1]
          [] resp.kind = "error" -> AttemptFailed(t, r, resp.error)

\* a slip: zero matches of the global lookup are taken for a failure of
\* the attempt
AfterGlobalRetry(s, r, resp) ==
    LET t == Answered(s, r, resp)
    IN  CASE resp.kind = "match" -> Settle(t, r, "Found")
          [] resp.kind = "empty" -> AttemptFailed(t, r, TransientError)
          [] resp.kind = "error" -> AttemptFailed(t, r, resp.error)

\* geocodeWithRetry, lines 270-274: the global lookup has answered
AfterGlobal(s, r, resp) ==
    LET t == Answered(s, r, resp)
    IN  CASE resp.kind = "match" -> Settle(t, r, "Found")
          [] resp.kind = "empty" -> Settle(t, r, "NotFound")
          [] resp.kind = "error" -> AttemptFailed(t, r, resp.error)

\* the lookup the r-th loop awaits has answered: geocodeWithRetry goes on
\* to its next await or settles
AfterLookup(s, r, resp) ==
    IF s.runs[r].pc = "biased" THEN AfterBiased(s, r, resp)
    ELSE AfterGlobal(s, r, resp)

\* the provider has answered these lookups in this order in one task: the
\* continuations of geocodeWithRetry run in that order
RECURSIVE AfterLookups(_, _, _)
AfterLookups(s, order, resps) ==
    IF order = <<>> THEN s
    ELSE AfterLookups(AfterLookup(s, Head(order), Head(resps)),
                      Tail(order), Tail(resps))

\* and behind them, in the same order, the continuations of startSearch
RECURSIVE ResumeAll(_, _)
ResumeAll(s, order) ==
    IF order = <<>> THEN s
    ELSE ResumeAll(Resume(s, Head(order)), Tail(order))

\* geocodeWithRetry, lines 289-292 and 255: the backoff timer has fired
AfterBackoff(s, r) ==
    Resume(BeginAttempt([s EXCEPT !.runs[r].attempt = @ + 1], r), r)

\* startSearch, lines 362-363 and 323: the pause timer has fired
AfterPause(s, r) ==
    LoopHead(ClearJob([s EXCEPT !.runs[r].i = @ + 1], r), r)

\* startSearch, lines 305-321, and the first pass through the loop
BeginSearch(s, text) ==
    LET addresses == ParseAddresses(text)
        r == Len(s.runs) + 1
        overlapped == \E q \in DOMAIN s.runs : Alive(s.runs[q])
        t == [s EXCEPT
                !.isSearching = TRUE,
                !.searchCancelled = FALSE,
                !.geoObjectsCollection = <<>>,
                !.foundAddressesCount = 0,
                !.notFoundAddresses = <<>>,
                !.totalAddressesCount = Len(addresses),
                !.runs = Append(@, NewRun(addresses)),
                !.hist = Append(@, NewHist(text, overlapped))]
    IN  IF Len(addresses) = 0
        THEN ExitLoop(t, r, "empty")
        ELSE LoopHead(t, r)

\* the provider may give this answer to this lookup of this address
Answers(address, lookup) ==
    IF stub[address] = "any" THEN Responses
    ELSE {StubAnswer(stub[address], lookup)}

(***************************************************************************)
(* Initial state: the field initialisers of the class, lines 35-59, on a   *)
(* page that may define ymaps itself.                                      *)
(***************************************************************************)
InitComponent ==
    /\ addressesInput = <<>>
    /\ isSearching = FALSE
    /\ foundAddressesCount = 0
    /\ totalAddressesCount = 0
    /\ notFoundAddresses = <<>>
    /\ mapError = Null
    /\ mapInitialized = FALSE
    /\ isSettingsOpen = FALSE
    /\ settings = DefaultSettings
    /\ tempApiKey = <<>>
    /\ tempRetryCount = Num(DefaultRetryCount)
    /\ tempRetryDelays = DefaultRetryDelaysText
    /\ geoObjectsCollection = <<>>
    /\ searchCancelled = FALSE
    /\ yandexMapsScriptLoaded = FALSE
    /\ viewInit = FALSE
    /\ scripts = 0
    /\ intervals = <<>>
    /\ readyCalls = 0
    /\ runs = <<>>
    /\ hist = <<>>

\* the page leaves ymaps to the script of the component, which defines it
\* or does not, or the page defines ymaps itself
InitPage ==
    \/ /\ ymaps = "undefined"
       /\ library = TRUE
       /\ localStorage \in StoredSettings
    \/ /\ ymaps = "undefined"
       /\ library = FALSE
       /\ localStorage = <<>>
    \/ /\ ymaps = "page"
       /\ library = TRUE
       /\ localStorage \in PlainSettings

\* a page that leaves the map library to the component, with a library
\* that works
InitScript ==
    /\ InitComponent
    /\ ymaps = "undefined"
    /\ library = TRUE
    /\ localStorage \in StoredSettings
    /\ stub = [a \in Addresses |-> "any"]

Init ==
    /\ InitComponent
    /\ InitPage
    /\ stub = [a \in Addresses |-> "any"]

InitStub ==
    /\ InitComponent
    /\ ymaps = "undefined"
    /\ library = TRUE
    /\ localStorage \in StoredSettings
    /\ stub \in [Addresses -> StubKinds]

\* a page with stored settings that have a key and no retries, against a
\* provider that fails every lookup
InitForm ==
    /\ InitComponent
    /\ ymaps = "undefined"
    /\ library = TRUE
    /\ localStorage \in PlainSettings
    /\ stub = [a \in Addresses |-> "transient"]

(***************************************************************************)
(* Start-up: settings and the map library.                                 *)
(***************************************************************************)
\* the script elements, intervals and ymaps.ready() promises now pending
Loads == scripts + Len(intervals) + readyCalls

\* an ascending sequence with one more element
RECURSIVE Insert(_, _)
Insert(seq, x) ==
    IF seq = <<>> THEN <<x>>
    ELSE IF x <= Head(seq) THEN <<x>> \o seq
    ELSE <<Head(seq)>> \o Insert(Tail(seq), x)

Remove(seq, p) == SubSeq(seq, 1, p - 1) \o SubSeq(seq, p + 1, Len(seq))

\* loadSettings, lines 78-86: the value of the signal settings afterwards
LoadSettings ==
    IF localStorage = <<>> \/ localStorage[1] = NotJson THEN settings
    ELSE localStorage[1]

\* openSettings, lines 94-100, with these settings in force; join on a
\* list that is undefined throws at line 98
OpenSettingsOf(current) ==
    /\ tempApiKey' = current.apiKey
    /\ tempRetryCount' = current.retryCount
    /\ IF current.retryDelays = UndefinedDelays
       THEN UNCHANGED <<tempRetryDelays, isSettingsOpen>>
       ELSE /\ tempRetryDelays' = Join(current.retryDelays)
            /\ isSettingsOpen' = TRUE

\* loadYandexMapsScript, lines 165-196, with this key in force, and the
\* start of initializeMapWithRetry, lines 198-200
LoadYandexMapsScript(apiKey) ==
    IF yandexMapsScriptLoaded \/ ymaps # "undefined"
    THEN /\ Loads < MaxLoads
         /\ intervals' = Insert(intervals, 0)
         /\ UNCHANGED <<mapError, scripts>>
    ELSE IF NoApiKey(apiKey)
    THEN /\ mapError' = MsgNoKey
         /\ UNCHANGED <<scripts, intervals>>
    ELSE /\ Loads < MaxLoads
         /\ scripts' = scripts + 1
         /\ UNCHANGED <<mapError, intervals>>

\* ngAfterViewInit, lines 61-68, with loadSettings (77-92); an exception of
\* openSettings ends it
NgAfterViewInit ==
    /\ ~viewInit
    /\ viewInit' = TRUE
    /\ settings' = LoadSettings
    /\ IF NoApiKey(LoadSettings.apiKey)
       THEN /\ OpenSettingsOf(LoadSettings)
            /\ UNCHANGED <<mapError, scripts, intervals>>
       ELSE /\ LoadYandexMapsScript(LoadSettings.apiKey)
            /\ UNCHANGED formVars
    /\ UNCHANGED <<addressesInput, mapInitialized, yandexMapsScriptLoaded,
                   localStorage, ymaps, library, readyCalls, stub>>
    /\ UNCHANGED sessionVars

\* script.onload, lines 184-188, and the start of initializeMapWithRetry;
\* the script has run
ScriptOnload ==
    /\ scripts > 0
    /\ scripts' = scripts - 1
    /\ yandexMapsScriptLoaded' = TRUE
    /\ mapError' = Null
    /\ intervals' = Insert(intervals, 0)
    /\ ymaps' = (IF ymaps = "undefined" /\ library THEN "script" ELSE ymaps)
    /\ UNCHANGED <<addressesInput, mapInitialized, settings, localStorage,
                   formVars, viewInit, library, readyCalls, stub>>
    /\ UNCHANGED sessionVars

\* script.onerror, lines 190-193
ScriptOnerror ==
    /\ scripts > 0
    /\ scripts' = scripts - 1
    /\ yandexMapsScriptLoaded' = FALSE
    /\ mapError' = MsgScriptError
    /\ UNCHANGED <<addressesInput, mapInitialized, settings, localStorage,
                   formVars, viewInit, ymaps, library, intervals, readyCalls,
                   stub>>
    /\ UNCHANGED sessionVars

\* one tick of an interval of initializeMapWithRetry, lines 200-211, and
\* the call of ymaps.ready() in initializeMap, line 215
PollTick ==
    /\ \E p \in DOMAIN intervals :
        IF ymaps # "undefined"
        THEN /\ intervals' = Remove(intervals, p)
             /\ readyCalls' = readyCalls + 1
             /\ UNCHANGED mapError
        ELSE IF intervals[p] + 1 > MaxPollAttempts
        THEN /\ intervals' = Remove(intervals, p)
             /\ mapError' = MsgPollTimeout
             /\ UNCHANGED readyCalls
        ELSE /\ intervals' = Insert(Remove(intervals, p), intervals[p] + 1)
             /\ UNCHANGED <<mapError, readyCalls>>
    /\ UNCHANGED <<addressesInput, mapInitialized, settings,
                   yandexMapsScriptLoaded, localStorage, formVars, viewInit,
                   ymaps, library, scripts, stub>>
    /\ UNCHANGED sessionVars

\* initializeMap, lines 216-229: a promise of ymaps.ready() settles; the
\* map comes with a new, empty collection
MapReady ==
    /\ readyCalls > 0
    /\ readyCalls' = readyCalls - 1
    /\ \E ok \in BOOLEAN :
        IF ok
        THEN /\ geoObjectsCollection' = <<>>
             /\ mapInitialized' = TRUE
             /\ UNCHANGED mapError
        ELSE /\ mapError' = MsgInitError
             /\ UNCHANGED <<geoObjectsCollection, mapInitialized>>
    /\ UNCHANGED <<addressesInput, settings, yandexMapsScriptLoaded,
                   localStorage, formVars, viewInit, ymaps, library, scripts,
                   intervals, stub>>
    /\ UNCHANGED <<isSearching, foundAddressesCount, totalAddressesCount,
                   notFoundAddresses, searchCancelled, runs, hist>>

(***************************************************************************)
(* The user.                                                               *)
(***************************************************************************)
\* onAddressesChange, lines 232-235, the user typing one of these texts
OnAddressesChangeTo(texts) ==
    /\ \E text \in texts :
        /\ text # addressesInput
        /\ addressesInput' = text
    /\ UNCHANGED <<mapError, mapInitialized, settings,
                   yandexMapsScriptLoaded, localStorage, formVars, loadVars,
                   stub>>
    /\ UNCHANGED sessionVars

OnAddressesChange == OnAddressesChangeTo(Inputs)

\* toggleSearch, lines 237-243
ToggleSearch ==
    /\ IF isSearching
       THEN Commit(StopSearch(Session, "user"))
       ELSE IF ~mapInitialized
       THEN UNCHANGED <<sessionVars, mapError>>
       ELSE /\ Len(runs) < MaxRuns
            /\ Commit(BeginSearch(Session, addressesInput))
    /\ UNCHANGED otherVars

(***************************************************************************)
(* The settings dialog.                                                    *)
(***************************************************************************)
\* what the user may type in the fields of the dialog
KeyInputs == { <<SP, "j">> }

RetryCountInputs == { <<"-", "1">>, <<"+", "4">> }

DelayInputs ==
    { <<"0", ",", "-", "1", ",", "x">>,
      <<"x", ",", SP>> \o InfinityText }

\* openSettings, lines 94-100
OpenSettings ==
    /\ viewInit
    /\ OpenSettingsOf(settings)
    /\ UNCHANGED <<addressesInput, mapError, mapInitialized, settings,
                   yandexMapsScriptLoaded, localStorage, loadVars, stub>>
    /\ UNCHANGED sessionVars

\* closeSettings, lines 102-104
CloseSettings ==
    /\ viewInit
    /\ isSettingsOpen' = FALSE
    /\ UNCHANGED <<addressesInput, mapError, mapInitialized, settings,
                   tempApiKey, tempRetryCount, tempRetryDelays,
                   yandexMapsScriptLoaded, localStorage, loadVars, stub>>
    /\ UNCHANGED sessionVars

\* onApiKeyChange, lines 149-152
OnApiKeyChange ==
    /\ viewInit
    /\ \E text \in KeyInputs :
        /\ text # tempApiKey
        /\ tempApiKey' = text
    /\ UNCHANGED <<addressesInput, mapError, mapInitialized, isSettingsOpen,
                   settings, tempRetryCount, tempRetryDelays,
                   yandexMapsScriptLoaded, localStorage, loadVars, stub>>
    /\ UNCHANGED sessionVars

\* onRetryCountChange, lines 154-157
OnRetryCountChange ==
    /\ viewInit
    /\ \E text \in RetryCountInputs :
        LET value == ParseInt(text)
        IN  /\ value # tempRetryCount
            /\ tempRetryCount' = value
    /\ UNCHANGED <<addressesInput, mapError, mapInitialized, isSettingsOpen,
                   settings, tempApiKey, tempRetryDelays,
                   yandexMapsScriptLoaded, localStorage, loadVars, stub>>
    /\ UNCHANGED sessionVars

\* onRetryDelaysChange, lines 159-162
OnRetryDelaysChange ==
    /\ viewInit
    /\ \E text \in DelayInputs :
        /\ text # tempRetryDelays
        /\ tempRetryDelays' = text
    /\ UNCHANGED <<addressesInput, mapError, mapInitialized, isSettingsOpen,
                   settings, tempApiKey, tempRetryCount,
                   yandexMapsScriptLoaded, localStorage, loadVars, stub>>
    /\ UNCHANGED sessionVars

\* window.location.reload(), line 139: the page, every loop on it and
\* every script, interval and promise are gone; a new component is
\* constructed over the same localStorage on the same page
Reload(stored) ==
    /\ addressesInput' = <<>>
    /\ isSearching' = FALSE
    /\ foundAddressesCount' = 0
    /\ totalAddressesCount' = 0
    /\ notFoundAddresses' = <<>>
    /\ mapError' = Null
    /\ mapInitialized' = FALSE
    /\ isSettingsOpen' = FALSE
    /\ settings' = DefaultSettings
    /\ tempApiKey' = <<>>
    /\ tempRetryCount' = Num(DefaultRetryCount)
    /\ tempRetryDelays' = DefaultRetryDelaysText
    /\ geoObjectsCollection' = <<>>
    /\ searchCancelled' = FALSE
    /\ yandexMapsScriptLoaded' = FALSE
    /\ localStorage' = stored
    /\ viewInit' = FALSE
    /\ ymaps' = (IF ymaps = "page" THEN "page" ELSE "undefined")
    /\ scripts' = 0
    /\ intervals' = <<>>
    /\ readyCalls' = 0
    /\ runs' = <<>>
    /\ hist' = <<>>
    /\ UNCHANGED <<library, stub>>

\* saveSettings, lines 118-147, with these delays read from the form
SaveSettingsWith(delays) ==
    LET newSettings == [apiKey |-> Trim(tempApiKey),
                        retryCount |-> tempRetryCount,
                        retryDelays |-> delays]
        oldApiKey == settings.apiKey
    IN  IF newSettings.apiKey = NoKey
        THEN UNCHANGED vars
        ELSE IF oldApiKey # newSettings.apiKey /\ ~NoApiKey(oldApiKey)
        THEN Reload(<<Stringify(newSettings)>>)
        ELSE /\ settings' = newSettings
             /\ localStorage' = <<Stringify(newSettings)>>
             /\ isSettingsOpen' = FALSE
             /\ IF ~mapInitialized /\ ~yandexMapsScriptLoaded
                THEN LoadYandexMapsScript(newSettings.apiKey)
                ELSE UNCHANGED <<mapError, scripts, intervals>>
             /\ UNCHANGED <<addressesInput, mapInitialized, tempApiKey,
                            tempRetryCount, tempRetryDelays,
                            yandexMapsScriptLoaded, viewInit, ymaps,
                            library, readyCalls, stub>>
             /\ UNCHANGED sessionVars

\* saveSettings, lines 106-147; trim on a key that is undefined throws at
\* line 119
SaveSettings ==
    /\ viewInit
    /\ LET delays == ParseDelays(tempRetryDelays)
       IN  IF Len(delays) = 0 \/ tempApiKey = UndefinedKey
           THEN UNCHANGED vars
           ELSE SaveSettingsWith(delays)

(***************************************************************************)
(* The provider and the timers.  One step is one task of the event loop    *)
(* with the microtasks it leaves behind.                                   *)
(***************************************************************************)
\* the loops that await a lookup of the provider
InFlight == { r \in DOMAIN runs : runs[r].pc \in {"biased", "global"} }

\* the orders in which the provider may answer some of them in one task
Orders ==
    { order \in UNION { [1..n -> InFlight] : n \in 1..Cardinality(InFlight) } :
        \A i, j \in DOMAIN order : i # j => order[i] # order[j] }

\* the promises of ymaps.geocode settle, lines 263 and 270
GeocodeSettled ==
    /\ \E order \in Orders :
        \E resps \in [DOMAIN order -> Responses] :
            /\ \A i \in DOMAIN order :
                resps[i] \in Answers(
                    runs[order[i]].addresses[runs[order[i]].i + 1],
                    runs[order[i]].pc)
            /\ Commit(ResumeAll(AfterLookups(Session, order, resps), order))
    /\ UNCHANGED otherVars

\* the timer of line 289 fires
BackoffElapsed ==
    /\ \E r \in DOMAIN runs :
        /\ runs[r].pc = "backoff"
        /\ Commit(AfterBackoff(Session, r))
    /\ UNCHANGED otherVars

\* the timer of line 362 fires
PauseElapsed ==
    /\ \E r \in DOMAIN runs :
        /\ runs[r].pc = "pause"
        /\ Commit(AfterPause(Session, r))
    /\ UNCHANGED otherVars

(***************************************************************************)
(* The component.  Page loads that have not touched the settings dialog    *)
(* are explored with up to MaxRuns searches of the texts Inputs.  The      *)
(* handlers of the dialog are explored with up to FormEdits of the three   *)
(* settings typed by the user, on page loads with up to FormRuns searches  *)
(* of the texts FormInputs.                                                *)
(***************************************************************************)
FormRuns == 1

FormEdits == 1

FormInputs == { <<"a">> }

\* what the settings hold once a typed text is saved
TypedKeys == { Trim(text) : text \in KeyInputs }

TypedCounts == { ParseInt(text) : text \in RetryCountInputs }

TypedDelays == { ParseDelays(text) : text \in DelayInputs }

\* the settings that hold what the user typed, in the form or saved
Edits ==
    (IF tempApiKey \in KeyInputs \/ settings.apiKey \in TypedKeys
     THEN 1 ELSE 0)
    + (IF tempRetryCount \in TypedCounts \/ settings.retryCount \in TypedCounts
       THEN 1 ELSE 0)
    + (IF tempRetryDelays \in DelayInputs
          \/ settings.retryDelays \in TypedDelays
       THEN 1 ELSE 0)

\* the page has left the map library to the component, the dialog has not been
\* opened and nothing has been saved
Pristine ==
    /\ ymaps # "page"
    /\ ~isSettingsOpen
    /\ tempApiKey = <<>>
    /\ tempRetryCount = Num(DefaultRetryCount)
    /\ tempRetryDelays = DefaultRetryDelaysText
    /\ localStorage \in StoredSettings

\* the address box and the searches of this page load are within the
\* bounds of the dialog
FormSearches ==
    /\ addressesInput \in FormInputs \cup {<<>>}
    /\ Len(runs) <= FormRuns
    /\ \A r \in DOMAIN runs :
        \E text \in FormInputs : runs[r].addresses = ParseAddresses(text)

\* the user types in the address box while a search can follow
Typing ==
    /\ Len(runs) < (IF Pristine THEN MaxRuns ELSE FormRuns)
    /\ OnAddressesChange
    /\ Pristine \/ FormSearches'

\* the user presses the search button
Toggle ==
    /\ ToggleSearch
    /\ Len(runs') > Len(runs) => Pristine \/ FormSearches'

\* the user works in the settings dialog, with up to this many of the
\* three settings typed
Dialog(edits) ==
    \/ FormSearches /\ OpenSettings
    \/ FormSearches /\ CloseSettings
    \/ FormSearches /\ OnApiKeyChange /\ Edits' <= edits
    \/ FormSearches /\ OnRetryCountChange /\ Edits' <= edits
    \/ FormSearches /\ OnRetryDelaysChange /\ Edits' <= edits
    \/ FormSearches /\ SaveSettings

Next ==
    \/ NgAfterViewInit
    \/ ScriptOnload
    \/ ScriptOnerror
    \/ PollTick
    \/ MapReady
    \/ Typing
    \/ Toggle
    \/ Dialog(FormEdits)
    \/ GeocodeSettled
    \/ BackoffElapsed
    \/ PauseElapsed

Spec == Init /\ [][Next]_vars

\* the same component against a provider stub
SpecStub == InitStub /\ [][Next]_vars

(***************************************************************************)
(* The settings dialog with up to MaxEdits settings typed, one search of   *)
(* one address per page load, against a provider that is down.             *)
(***************************************************************************)
MaxEdits == 2

NextForm ==
    \/ NgAfterViewInit
    \/ ScriptOnload
    \/ ScriptOnerror
    \/ PollTick
    \/ MapReady
    \/ Len(runs) < FormRuns /\ OnAddressesChangeTo(FormInputs)
    \/ ToggleSearch /\ FormSearches'
    \/ Dialog(MaxEdits)
    \/ GeocodeSettled
    \/ BackoffElapsed
    \/ PauseElapsed

SpecForm == InitForm /\ [][NextForm]_vars

(***************************************************************************)
(* The text of the address box: every text of up to MaxLen characters over *)
(* a letter and four kinds of white space, typed into the empty box and    *)
(* searched once per page load; the texts FormInputs on the page loads     *)
(* that have touched the settings dialog.                                  *)
(***************************************************************************)
Texts == UNION { [1..n -> {"a", SP, NL, CR, NBSP}] : n \in 0..MaxLen }

InitParse ==
    /\ InitComponent
    /\ ymaps = "undefined"
    /\ library = TRUE
    /\ localStorage \in PlainSettings
    /\ stub = [a \in UNION { Range(ParseAddresses(t)) : t \in Texts } |->
                    "any"]

NextParse ==
    \/ NgAfterViewInit
    \/ ScriptOnload
    \/ ScriptOnerror
    \/ PollTick
    \/ MapReady
    \/ /\ mapInitialized
       /\ addressesInput = <<>>
       /\ OnAddressesChangeTo(Texts)
       /\ Pristine \/ FormSearches'
    \/ Toggle /\ Len(runs') <= FormRuns
    \/ Dialog(FormEdits)
    \/ GeocodeSettled
    \/ BackoffElapsed
    \/ PauseElapsed

SpecParse == InitParse /\ [][NextParse]_vars

(***************************************************************************)
(* Termination: every provider lookup and every timer eventually          *)
(* completes.  One search per page load, of the texts FormInputs on the   *)
(* page loads that have touched the settings dialog.                      *)
(***************************************************************************)
LiveInputs == FormInputs \cup { <<"a", CR, NL, NL, TAB, "b">> }

NextLive ==
    \/ NgAfterViewInit
    \/ ScriptOnload
    \/ ScriptOnerror
    \/ PollTick
    \/ MapReady
    \/ OnAddressesChangeTo(LiveInputs) /\ (Pristine \/ FormSearches')
    \/ Toggle /\ Len(runs') <= FormRuns
    \/ Dialog(FormEdits)
    \/ GeocodeSettled
    \/ BackoffElapsed
    \/ PauseElapsed

\* a promise or the timer the r-th loop awaits settles
Settles(r) ==
    /\ r \in DOMAIN runs
    /\ Alive(runs[r])
    /\ GeocodeSettled \/ BackoffElapsed \/ PauseElapsed
    /\ runs'[r] # runs[r]

\* one search per page load
SpecLive ==
    /\ InitScript
    /\ [][NextLive]_vars
    /\ \A r \in 1..FormRuns : WF_vars(Settles(r))
(***************************************************************************)
(* Properties.                                                             *)
(***************************************************************************)
Loops == DOMAIN runs

Cancelled(r) == hist[r].cancelAt # <<>>

LookupInFlight(r) == runs[r].pc \in {"biased", "global"}

\* C1: in every reachable state the jobs counted as found and those listed
\* as not found are together at most the total of the session:
\* foundAddressesCount + Len(notFoundAddresses) <= totalAddressesCount.
C1_CountsWithinTotal ==
    foundAddressesCount + Len(notFoundAddresses) <= totalAddressesCount

\* C2: once a loop has been cancelled (stopSearch while it is alive), it
\* starts no further job, starts no further attempt of the job it is at, and
\* records no job beyond that one, whatever happens later.
C2_CancelledLoopStartsNothing ==
    \A r \in Loops :
        Cancelled(r) =>
            /\ hist[r].started = hist[r].cancelAt[1].started
            /\ hist[r].tries <= hist[r].cancelAt[1].tries
            /\ hist[r].recorded <= hist[r].cancelAt[1].started

\* C3: at most one loop of startSearch is alive and at most one provider
\* lookup is in flight at any time.
C3_OneLoopOneLookup ==
    /\ Cardinality({ r \in Loops : Alive(runs[r]) }) <= 1
    /\ Cardinality({ r \in Loops : LookupInFlight(r) }) <= 1

\* the number of passes of "for (attempt = 0; attempt <= retryCount; ...)"
\* for a retryCount that is an integer, NaN, null or undefined
Attempts(retryCount) ==
    LET v == ToNumber(retryCount)
    IN  IF v.k = "num" /\ v.m >= 0 THEN v.m * Pow10(v.e) + 1 ELSE 0

\* the current job of loop r is over and every lookup of it met the
\* transient error, and the loop never found the search cancelled
FailedTransiently(r) ==
    /\ hist[r].outcome \notin {"none", "Cancelled"}
    /\ hist[r].allTransient

\* C4 (as claimed): a job whose every lookup fails with a transient error,
\* without cancellation, ends as Failed after exactly retryCount lookups.
C4_RetryCountLookups ==
    \A r \in Loops :
        FailedTransiently(r) /\ LessEq(Num(1), hist[r].policy.retryCount) =>
            /\ hist[r].outcome = "Failed"
            /\ hist[r].calls = Attempts(hist[r].policy.retryCount) - 1

\* C4 (amended): such a job ends as Failed after exactly retryCount + 1
\* lookups, one per attempt, and never has more than that in progress.
C4_RetryCountPlusOneLookups ==
    \A r \in Loops :
        /\ hist[r].allTransient =>
                hist[r].calls <= Attempts(hist[r].policy.retryCount)
        /\ FailedTransiently(r) =>
                /\ hist[r].outcome = "Failed"
                /\ hist[r].calls = Attempts(hist[r].policy.retryCount)
                /\ hist[r].tries = hist[r].calls

C4_Witness ==
    \E r \in Loops :
        /\ FailedTransiently(r)
        /\ hist[r].policy.retryCount = Num(1)
        /\ hist[r].calls = 2

\* C5: when the resolution of a job ends as Failed or NotFound, the loop
\* does not end there: it never leaves through the break of the catch block.
C5_FailureNeverEndsBatch ==
    \A r \in Loops :
        hist[r].outcome \in {"Failed", "NotFound"} =>
            hist[r].exit # "mapError"

\* C6: when the resolution of job j fails with a credential error, the loop
\* ends at once: job j is the last entry of notFoundAddresses, the session
\* is cancelled and no longer searching, and the loop has started and
\* recorded no job after j.
C6_AuthErrorHalts ==
    \A r \in Loops :
        hist[r].outcome = "Auth" =>
            /\ runs[r].pc = "done"
            /\ hist[r].exit = "mapError"
            /\ Cancelled(r)
            /\ LET final == hist[r].final[1]
                   j == runs[r].i + 1
               IN  /\ final.notFound # <<>>
                   /\ final.notFound[Len(final.notFound)] = runs[r].addresses[j]
                   /\ final.cancelled
                   /\ ~final.isSearching
                   /\ hist[r].started = j
                   /\ hist[r].recorded = j

C6_Witness ==
    \E r \in Loops :
        /\ hist[r].outcome = "Auth"
        /\ runs[r].i + 1 < Len(runs[r].addresses)

\* C7: a loop that ran to the end of a non-empty job list without having
\* been cancelled leaves found + not found = total, having recorded every
\* job once.
C7_CompletedRunAccountsForAll ==
    \A r \in Loops :
        hist[r].exit = "completed" /\ ~Cancelled(r) =>
            LET final == hist[r].final[1]
            IN  /\ final.found + Len(final.notFound) = final.total
                /\ hist[r].recorded = Len(runs[r].addresses)

\* a lookup of the current job of this loop has met a credential error
MetAuthError(h) == \E k \in DOMAIN h.answers : h.answers[k] = "auth"

\* C9: once a lookup of a job has failed with a credential error, the loop
\* has issued no further lookup and slept no further backoff for that job
\* (the error is the last answer, every sleep was followed by an attempt)
\* and the error went up to startSearch, which ended the loop; and the
\* step in which the error arrives leaves the invalid-key message in
\* mapError.
C9_AuthErrorNeverRetried ==
    [][\A r \in DOMAIN hist' :
            MetAuthError(hist'[r]) =>
                /\ hist'[r].answers[Len(hist'[r].answers)] = "auth"
                /\ Len(hist'[r].sleeps) = hist'[r].tries - 1
                /\ hist'[r].outcome = "Auth"
                /\ runs'[r].pc = "done"
                /\ ~(r \in DOMAIN hist /\ MetAuthError(hist[r])) =>
                        mapError' = MsgInvalidKey]_vars

C9_Witness ==
    \E r \in Loops :
        /\ hist[r].outcome = "Auth"
        /\ hist[r].policy.retryCount = Num(1)
        /\ hist[r].tries = 1
        /\ hist[r].sleeps = <<>>

\* C10: the global lookup is in flight only after the biased lookup of the
\* same attempt gave zero matches; and when both gave zero matches the job
\* is NotFound at once: no sleep after that attempt, no further lookup, and
\* two lookups in all when it was the first attempt.
C10_ZeroResultIsTerminal ==
    \A r \in Loops :
        /\ runs[r].pc = "global" => hist[r].answers = <<"empty">>
        /\ Len(hist[r].answers) = 2 => hist[r].answers[1] = "empty"
        /\ hist[r].answers = <<"empty", "empty">> <=>
                hist[r].outcome = "NotFound"
        /\ hist[r].outcome = "NotFound" =>
                /\ runs[r].pc \in {"pause", "done"}
                /\ Len(hist[r].sleeps) = hist[r].tries - 1
                /\ hist[r].tries = 1 => hist[r].calls = 2

C10_Witness ==
    \E r \in Loops :
        /\ hist[r].outcome = "NotFound"
        /\ hist[r].policy.retryCount = Num(1)
        /\ hist[r].tries = 1
        /\ hist[r].calls = 2
        /\ runs[r].pc = "pause"

\* loop r ran alone, from its start to its end, and the user did not stop it
RanUndisturbed(r) ==
    /\ hist[r].exit # "none"
    /\ ~hist[r].overlapped
    /\ r + 1 \in Loops => ~hist[r + 1].overlapped
    /\ ~(Cancelled(r) /\ hist[r].cancelAt[1].by = "user")

\* C8: against a provider stub, two runs in succession over the same
\* addresses with the same settings end in the same session: same total,
\* same found count, same notFoundAddresses, same placemarks.
C8_RerunIsIdempotent ==
    \A r \in Loops : \A q \in Loops :
        /\ q = r + 1
        /\ RanUndisturbed(r)
        /\ RanUndisturbed(q)
        /\ runs[r].addresses = runs[q].addresses
        /\ hist[r].policy = hist[q].policy
        => hist[r].final = hist[q].final

\* C11: the backoff sleeps of a job are, in order, delays[min(a, len - 1)]
\* after failed attempt a = 0, 1, ...; there are never more sleeps than
\* attempts made; a job found at its attempt m + 1 has slept exactly m
\* times; and the last permitted attempt (number retryCount + 1) is
\* followed by no sleep.
C11_BackoffSchedule ==
    \A r \in Loops :
        LET h == hist[r]
            delays == h.policy.retryDelays
            n == Len(h.sleeps)
        IN  /\ \A a \in 0..(n - 1) :
                    h.sleeps[a + 1] = delays[Min(a, Len(delays) - 1) + 1]
            /\ n <= h.tries
            /\ h.outcome = "Found" => h.tries = n + 1
            /\ h.tries > 0 /\ h.tries = Attempts(h.policy.retryCount) =>
                    n = h.tries - 1
            /\ h.tries > 0 => h.tries <= Attempts(h.policy.retryCount)

C11_Witness ==
    \E r \in Loops :
        /\ hist[r].outcome = "Found"
        /\ hist[r].policy = [retryCount |-> Num(4),
                             retryDelays |-> <<Num(1), Num(2)>>]
        /\ hist[r].tries = 4
        /\ hist[r].sleeps = <<Num(1), Num(2), Num(2)>>
        /\ ~Cancelled(r)

\* C12: the pause between jobs is aware of cancellation: no loop is asleep
\* in the pause of line 362 while the session is cancelled (the pause is
\* skipped when the job ends cancelled, interrupted when the cancellation
\* comes during it).
C12_PauseIsCancellable ==
    \A r \in Loops :
        runs[r].pc = "pause" => ~searchCancelled

\* a non-empty list of positive numbers
PositiveDelays(delays) ==
    /\ Len(delays) > 0
    /\ \A k \in DOMAIN delays :
        /\ delays[k] \notin {JsNull, Undefined}
        /\ LessThan(Num(0), delays[k])

\* C13: whatever was typed in the settings dialog and saved, the retry
\* delays of the settings in memory and of the policy of every job started
\* are a non-empty list of positive numbers.
C13_DelaysNonEmptyPositive ==
    /\ PositiveDelays(settings.retryDelays)
    /\ \A r \in Loops :
            hist[r].started > 0 => PositiveDelays(hist[r].policy.retryDelays)

\* The lines of a text, told by their places in it: a line starts at the
\* first character and after every line feed, and ends before the next
\* line feed or at the end.
LineStarts(text) ==
    { p \in 1..(Len(text) + 1) : p = 1 \/ text[p - 1] = NL }

LineEnd(text, p) ==
    CHOOSE q \in p..(Len(text) + 1) :
        /\ q = Len(text) + 1 \/ text[q] = NL
        /\ \A k \in p..(q - 1) : text[k] # NL

\* the places of the characters of the line at p that are not white space
Inked(text, p) ==
    { k \in p..(LineEnd(text, p) - 1) : ~IsSpace(text[k]) }

\* the lines with something written on them
KeptLines(text) == { p \in LineStarts(text) : Inked(text, p) # {} }

\* the line at p from its first to its last character that is not white
\* space
Trimmed(text, p) ==
    LET first == CHOOSE k \in Inked(text, p) :
                    \A j \in Inked(text, p) : k <= j
        last == CHOOSE k \in Inked(text, p) :
                    \A j \in Inked(text, p) : j <= k
    IN  SubSeq(text, first, last)

\* the i-th kept line of the text
KeptLine(text, i) ==
    CHOOSE p \in KeptLines(text) :
        Cardinality({ q \in KeptLines(text) : q <= p }) = i

\* C14: the job list of a run is the trimmed texts of the lines of the
\* input that are not blank, in their order; totalAddressesCount is their
\* number N; and a run with N = 0 is over at once, with total 0, not
\* searching, no job started and no lookup made.
C14_JobsAreTrimmedLines ==
    \A r \in Loops :
        LET text == hist[r].input
            N == Cardinality(KeptLines(text))
        IN  /\ Len(runs[r].addresses) = N
            /\ \A i \in 1..N :
                    runs[r].addresses[i] = Trimmed(text, KeptLine(text, i))
            /\ r = Len(runs) => totalAddressesCount = N
            /\ N = 0 =>
                    /\ runs[r].pc = "done"
                    /\ hist[r].exit = "empty"
                    /\ hist[r].started = 0
                    /\ hist[r].calls = 0
                    /\ hist[r].final[1].total = 0
                    /\ ~hist[r].final[1].isSearching
            /\ hist[r].exit = "empty" => N = 0

C14_Witness ==
    \E r \in Loops :
        /\ hist[r].input = <<NBSP, "a", CR, NL>>
        /\ runs[r].addresses = << <<"a">> >>
        /\ totalAddressesCount = 1
        /\ hist[r].exit = "completed"

\* C15: the step in which geocodeWithRetry finds the search cancelled at
\* the start of an attempt appends the text of the job to
\* notFoundAddresses, once, and adds neither to the found count nor to the
\* placemarks; the job is then recorded, like every job the loop started.
C15_CancelledJobListedOnce ==
    [][\A r \in Loops \cap DOMAIN hist' :
            hist[r].outcome # "Cancelled" /\ hist'[r].outcome = "Cancelled" =>
                /\ notFoundAddresses' =
                        Append(notFoundAddresses,
                               runs[r].addresses[runs[r].i + 1])
                /\ foundAddressesCount' = foundAddressesCount
                /\ geoObjectsCollection' = geoObjectsCollection
                /\ hist'[r].recorded = hist[r].recorded + 1
                /\ hist'[r].recorded = hist'[r].started]_vars

C15_Witness ==
    \E r \in Loops :
        /\ hist[r].outcome = "Cancelled"
        /\ Len(hist[r].sleeps) = 1
        /\ hist[r].tries = 1
        /\ runs[r].pc = "pause"
        /\ notFoundAddresses = <<runs[r].addresses[runs[r].i + 1]>>
        /\ foundAddressesCount = 0

\* the texts a are those of b at a strictly increasing sequence of places
RECURSIVE IsSubSeq(_, _)
IsSubSeq(a, b) ==
    IF a = <<>> THEN TRUE
    ELSE IF b = <<>> THEN FALSE
    ELSE IF Head(a) = Head(b) THEN IsSubSeq(Tail(a), Tail(b))
    ELSE IsSubSeq(a, Tail(b))

\* C16: the placemarks on the map have strictly increasing indexes, each
\* the place of its job in the job list of the current run (the latest
\* startSearch) and carrying the text of that job, and notFoundAddresses
\* is the texts of the jobs at a strictly increasing sequence of places of
\* that list.
C16_ResultsInInputOrder ==
    /\ \A k \in 1..(Len(geoObjectsCollection) - 1) :
            geoObjectsCollection[k].index < geoObjectsCollection[k + 1].index
    /\ runs # <<>> =>
            LET current == runs[Len(runs)].addresses
            IN  /\ \A k \in DOMAIN geoObjectsCollection :
                        LET placemark == geoObjectsCollection[k]
                        IN  /\ placemark.index \in DOMAIN current
                            /\ placemark.originalAddress =
                                    current[placemark.index]
                /\ IsSubSeq(notFoundAddresses, current)

\* C17: a job that is recorded as not found without the search having
\* been found cancelled has had at least one provider lookup, whatever
\* retryCount the settings dialog saved.
C17_LookupBeforeNotFound ==
    \A r \in Loops :
        hist[r].outcome \in {"NotFound", "Failed", "Auth"} =>
            hist[r].calls >= 1

\* C18: isSearching is true as long as a loop of startSearch has not
\* exited, and so no run was started by toggleSearch while the loop of an
\* earlier run was alive.
C18_SearchingWhileLoopAlive ==
    \A r \in Loops :
        /\ Alive(runs[r]) => isSearching
        /\ ~hist[r].overlapped

\* C19: in every state between two turns of the event loop,
\* foundAddressesCount is the number of placemarks in the collection.
C19_FoundCountIsPlacemarks ==
    foundAddressesCount = Len(geoObjectsCollection)

\* how far a loop is from its exit once the search is cancelled: the
\* lookups of the attempt in flight, a backoff sleep, the pause
Rank(pc) ==
    CASE pc = "biased" -> 4
      [] pc = "global" -> 3
      [] pc = "backoff" -> 2
      [] pc = "pause" -> 1
      [] pc = "done" -> 0

\* C20 (as claimed): while the search is cancelled (stopSearch was called
\* and no search was started since), a loop only finishes the attempt in
\* flight and sleeps one pause: it begins no backoff sleep.
C20_StoppedLoopOnlyPauses ==
    [][\A r \in Loops \cap DOMAIN runs' :
            searchCancelled /\ runs'[r] # runs[r] =>
                /\ Rank(runs'[r].pc) < Rank(runs[r].pc)
                /\ runs'[r].pc # "backoff"]_vars

\* C20 (amended): when every lookup and every timer completes, every loop
\* started exits, unless the page is reloaded first, and it leaves
\* isSearching false when it does; and while the search is cancelled every
\* step of a loop brings it nearer to its exit: after the attempt in
\* flight come at most one backoff sleep and one pause.
C20_Terminates ==
    /\ \A r \in 1..FormRuns :
            (r \in DOMAIN runs) ~> (r \in DOMAIN runs => runs[r].pc = "done")
    /\ [](\A r \in Loops :
            runs[r].pc = "done" => ~hist[r].final[1].isSearching)
    /\ [][\A r \in Loops \cap DOMAIN runs' :
            searchCancelled /\ runs'[r] # runs[r] =>
                Rank(runs'[r].pc) < Rank(runs[r].pc)]_vars

C20_Witness ==
    \E r \in Loops :
        /\ hist[r].exit = "cancelled"
        /\ Cancelled(r)
        /\ hist[r].cancelAt[1].by = "user"
        /\ hist[r].recorded = 1
        /\ Len(runs) = r
        /\ ~isSearching
====
